---- MODULE Spec2Model ----
(***************************************************************************)
(* fzk: the process monitor (src/src/interface.rs), the poller thread and  *)
(* the foreground render/input loop (src/src/app.rs).                      *)
(*                                                                         *)
(* Strings are sequences of one-character strings; a ps output is a        *)
(* sequence of lines, a line is a sequence of whitespace-separated fields. *)
(***************************************************************************)
EXTENDS Integers, Sequences, FiniteSets, TLC

(***************************************************************************)
(* Bounds of the model                                                     *)
(***************************************************************************)
\* the search box never holds more than this many characters
MaxQuery == 2

\* the snapshots that kill_proc, kill_proc_list and the ranking are tried on
\* hold at most this many records
MaxKillProcs == 3

(***************************************************************************)
(* Inputs                                                                  *)
(***************************************************************************)
\* the header line printed by `ps -A --format comm,pid,%mem,%cpu`
HeaderLine == << <<"C","O","M","M","A","N","D">>, <<"P","I","D">>,
                 <<"%","M","E","M">>, <<"%","C","P","U">> >>

\* the lines ps can print, in the order ps prints them:
\*   bb 1 3 4      a process whose command has no blank
\*   ba c 2 3 4    a process "ba c" (pid 2): the pid column is read from "c"
AllLines == << << <<"b","b">>, <<"1">>, <<"3">>, <<"4">> >>,
               << <<"b","a">>, <<"c">>, <<"2">>, <<"3">>, <<"4">> >> >>

\* the subsequence of AllLines at the indices of S
RECURSIVE LinesAt(_, _)
LinesAt(S, i) ==
    IF i > Len(AllLines) THEN << >>
    ELSE (IF i \in S THEN << AllLines[i] >> ELSE << >>) \o LinesAt(S, i + 1)

\* what a successful ps writes to stdout: the header, then the lines of the
\* processes that are alive
PsOutputs ==
    { << HeaderLine >> \o LinesAt(S, 1) : S \in SUBSET (1 .. Len(AllLines)) }

\* the characters the operator types into the search box
TypedChars == { "b", "1" }

\* the terminal heights frame.area() reports
Heights == { 7, 8, 9 }

(***************************************************************************)
(* Strings                                                                 *)
(***************************************************************************)
Digits == << "0", "1", "2", "3", "4", "5", "6", "7", "8", "9" >>

\* byte order of the characters in use
Alphabet == << " ", "%", ".", "0", "1", "2", "3", "4", "5", "6", "7", "8", "9",
               "A", "C", "D", "E", "I", "M", "N", "O", "P", "U",
               "a", "b", "c", "e", "x" >>

Ord(c) == CHOOSE i \in 1 .. Len(Alphabet) : Alphabet[i] = c

is_ascii_digit(c) == \E i \in 1 .. Len(Digits) : Digits[i] = c

DigitValue(c) == (CHOOSE i \in 1 .. Len(Digits) : Digits[i] = c) - 1

\* Ord::cmp on str: lexicographic on bytes; TRUE iff a < b
RECURSIVE StrLess(_, _)
StrLess(a, b) ==
    IF b = << >> THEN FALSE
    ELSE IF a = << >> THEN TRUE
    ELSE IF Ord(Head(a)) # Ord(Head(b)) THEN Ord(Head(a)) < Ord(Head(b))
    ELSE StrLess(Tail(a), Tail(b))

\* u64::MAX (18446744073709551615) is outside TLC's integers; it is
\* represented by this value, which no parsed pid can take
U64_MAX == 0 - 1

U64_MAX_STRING == << "1","8","4","4","6","7","4","4","0","7","3","7","0","9",
                     "5","5","1","6","1","5" >>

\* str::parse::<u64>().unwrap_or(u64::MAX): an optional "+", then digits only
\* (the pid columns of the inputs have fewer than ten digits)
RECURSIVE DigitsValue(_, _)
DigitsValue(s, acc) ==
    IF s = << >> THEN acc ELSE DigitsValue(Tail(s), acc * 10 + DigitValue(Head(s)))

parse_pid(col) ==
    LET body == IF col # << >> /\ Head(col) = "+" THEN Tail(col) ELSE col
    IN  IF body # << >> /\ Len(body) <= 9
           /\ \A i \in 1 .. Len(body) : is_ascii_digit(body[i])
        THEN DigitsValue(body, 0)
        ELSE U64_MAX

\* u64::to_string
RECURSIVE NatToString(_)
NatToString(n) ==
    IF n < 10 THEN << Digits[n + 1] >>
    ELSE NatToString(n \div 10) \o << Digits[(n % 10) + 1] >>

to_string(pid) == IF pid = U64_MAX THEN U64_MAX_STRING ELSE NatToString(pid)

\* str::replace(".exe", ""): every non-overlapping occurrence, left to right
RECURSIVE replace_exe(_)
replace_exe(s) ==
    IF Len(s) < 4 THEN s
    ELSE IF SubSeq(s, 1, 4) = << ".", "e", "x", "e" >>
         THEN replace_exe(SubSeq(s, 5, Len(s)))
         ELSE << Head(s) >> \o replace_exe(Tail(s))

(***************************************************************************)
(* Process records                                                         *)
(***************************************************************************)
\* Process::new()
NewProcess == [ command |-> << >>, pid |-> U64_MAX, mem |-> << >>, cpu |-> << >> ]

\* the closure of get_procs_from_system that turns one line into a Process
ParseLine(line) ==
    [ command |-> IF Len(line) >= 1 THEN line[1] ELSE << >>,
      pid     |-> IF Len(line) >= 2 THEN parse_pid(line[2]) ELSE U64_MAX,
      mem     |-> IF Len(line) >= 3 THEN line[3] ELSE << >>,
      cpu     |-> IF Len(line) >= 4 THEN line[4] ELSE << >> ]

ParseLines(lines) == [ i \in 1 .. Len(lines) |-> ParseLine(lines[i]) ]

\* where slice::sort_by puts one more element: behind every element that is
\* not greater than it (the sort is stable)
RECURSIVE InsertByCommand(_, _)
InsertByCommand(sorted, p) ==
    IF sorted = << >> THEN << p >>
    ELSE LET last == sorted[Len(sorted)]
         IN  IF StrLess(p.command, last.command)
             THEN Append(InsertByCommand(SubSeq(sorted, 1, Len(sorted) - 1), p), last)
             ELSE Append(sorted, p)

\* the sort of the first n elements
RECURSIVE SortPrefixByCommand(_, _)
SortPrefixByCommand(procs, n) ==
    IF n = 0 THEN << >>
    ELSE InsertByCommand(SortPrefixByCommand(procs, n - 1), procs[n])

\* the sort of run's current_procs when the search box is empty
SortByCommand(procs) == SortPrefixByCommand(procs, Len(procs))

(***************************************************************************)
(* rust_fuzzy_search, as called by get_procs_by_name_fuzzy                 *)
(***************************************************************************)
\* trigrams(s): the windows of width 3 over "  " + s + " "
trigrams(s) ==
    LET padded == << " ", " " >> \o s \o << " " >>
    IN  [ i \in 1 .. Len(s) + 1 |-> SubSeq(padded, i, i + 2) ]

\* fuzzy_compare(a, b) = acc / (len(a) + 1), acc the number of trigrams of a
\* that occur in b; kept as the fraction num / den
fuzzy_compare(a, b) ==
    LET ta == trigrams(a)
        tb == trigrams(b)
        acc == Cardinality({ i \in 1 .. Len(ta) :
                               \E j \in 1 .. Len(tb) : ta[i] = tb[j] })
    IN  [ num |-> acc, den |-> Len(a) + 1 ]

\* score >= threshold, the threshold in tenths
ScoreAtLeast(score, threshold) == score.num * 10 >= threshold * score.den

\* score1 > score2
ScoreGreater(score1, score2) == score1.num * score2.den > score2.num * score1.den

\* a search that keeps every key whatever its score
fuzzy_search_any_score(s, list, threshold) ==
    [ i \in 1 .. Len(list) |->
        [ key |-> list[i], score |-> fuzzy_compare(s, list[i]) ] ]

\* fuzzy_search_threshold(s, list, threshold): (key, score) of every key whose
\* score reaches the threshold, in the order of list
fuzzy_search_threshold(s, list, threshold) ==
    LET scored == [ i \in 1 .. Len(list) |->
                      [ key |-> list[i], score |-> fuzzy_compare(s, list[i]) ] ]
        Keep(m) == ScoreAtLeast(m.score, threshold)
    IN  SelectSeq(scored, Keep)

(***************************************************************************)
(* Monitor                                                                 *)
(***************************************************************************)
None == [ some |-> FALSE ]
Some(v) == [ some |-> TRUE, val |-> v ]
unwrap_or(opt, default) == IF opt.some THEN opt.val ELSE default

Min(a, b) == IF a <= b THEN a ELSE b
Max(a, b) == IF a >= b THEN a ELSE b
\* usize::saturating_sub
saturating_sub(a, b) == IF a >= b THEN a - b ELSE 0

\* a constructor that stores what it is given
MonitorNew_Unclamped(inter, thres, num) ==
    [ interval |-> inter, threshold |-> thres, num_matches |-> num ]

\* Monitor::new: interval in hundredths of a second, threshold in tenths
MonitorNew(inter, thres, num) ==
    [ interval    |-> Max(inter, 100),
      threshold   |-> Min(Max(thres, 0), 10),
      num_matches |-> Max(num, 1) ]

\* Monitor::get_all_procs
get_all_procs(procs) == IF Len(procs) = 0 THEN None ELSE Some(procs)

\* the key a process is matched by
MatchKey(proc, search_pid) ==
    IF search_pid THEN to_string(proc.pid) ELSE replace_exe(proc.command)

\* Iterator::position over a sequence of truth values: the first TRUE
Position(tests) ==
    IF \E i \in 1 .. Len(tests) : tests[i]
    THEN Some(CHOOSE i \in 1 .. Len(tests) :
                 tests[i] /\ \A j \in 1 .. i - 1 : ~ tests[j])
    ELSE None

\* a sort by descending score that turns the order of equal scores around
SortByScore_Unstable(found) ==
    LET n == Len(found)
        Less(m1, m2) == ScoreGreater(m1.score, m2.score)
        Rank(i) == Cardinality({ j \in 1 .. n :
                        \/ Less(found[j], found[i])
                        \/ (~ Less(found[i], found[j]) /\ j > i) }) + 1
    IN  [ k \in 1 .. n |-> found[CHOOSE i \in 1 .. n : Rank(i) = k] ]

\* matches.sort_by(...): sort_by asks the comparator only whether it answers
\* Less, which it does when score1 > score2; the sort is stable
SortByScore(found) ==
    LET n == Len(found)
        Less(m1, m2) == ScoreGreater(m1.score, m2.score)
        Rank(i) == Cardinality({ j \in 1 .. n :
                        \/ Less(found[j], found[i])
                        \/ (~ Less(found[i], found[j]) /\ j < i) }) + 1
    IN  [ k \in 1 .. n |-> found[CHOOSE i \in 1 .. n : Rank(i) = k] ]

\* a ranking that cuts the matches down to num_matches before it sorts them
TakenMatches_TakingFirst(refs, search, threshold, num_matches) ==
    LET found == fuzzy_search_threshold(search, refs, threshold)
        sorted == SortByScore(SubSeq(found, 1, Min(Len(found), num_matches)))
    IN  [ i \in 1 .. Len(sorted) |-> sorted[i].key ]

\* the ranking of get_procs_by_name_fuzzy: fuzzy_search_threshold, sort_by,
\* then the keys of the first num_matches
TakenMatches(refs, search, threshold, num_matches) ==
    LET found == fuzzy_search_threshold(search, refs, threshold)
        sorted == SortByScore(found)
    IN  [ i \in 1 .. Min(Len(sorted), num_matches) |-> sorted[i].key ]

\* Monitor::get_procs_by_name_fuzzy
get_procs_by_name_fuzzy(procs, search, search_pid, threshold, num_matches) ==
    LET refs == [ i \in 1 .. Len(procs) |-> MatchKey(procs[i], search_pid) ]
        matches == TakenMatches(refs, search, threshold, num_matches)
        Spot(p) == Position([ i \in 1 .. Len(procs) |->
                                MatchKey(procs[i], search_pid) = p ])
        hits == SelectSeq([ i \in 1 .. Len(matches) |-> Spot(matches[i]) ],
                          LAMBDA o : o.some)
    IN  IF Len(matches) = 0 THEN None
        ELSE Some([ i \in 1 .. Len(hits) |-> procs[hits[i].val] ])

\* a removal of every record with the pid (Vec::retain)
RemoveEveryPid(procs, pid) ==
    SelectSeq(procs, LAMBDA p : p.pid # pid)

\* a removal that falls back on the head when no record has the pid
RemoveFirstPid_OrHead(procs, pid) ==
    LET spot == Position([ i \in 1 .. Len(procs) |-> procs[i].pid = pid ])
        at == IF spot.some THEN spot.val ELSE 1
    IN  SubSeq(procs, 1, at - 1) \o SubSeq(procs, at + 1, Len(procs))

\* the tail of Monitor::kill_proc: drop the first record with the pid
RemoveFirstPid(procs, pid) ==
    LET spot == Position([ i \in 1 .. Len(procs) |-> procs[i].pid = pid ])
    IN  IF spot.some
        THEN SubSeq(procs, 1, spot.val - 1) \o SubSeq(procs, spot.val + 1, Len(procs))
        ELSE procs

\* a kill_proc that does not look at how `kill -9 pid` ended
kill_proc_ignoring_status(procs, proc, res) == RemoveFirstPid(procs, proc.pid)

\* Monitor::kill_proc once `kill -9 pid` has returned res
kill_proc(procs, proc, res) ==
    IF res = "success" THEN RemoveFirstPid(procs, proc.pid) ELSE procs

\* the proc_list.iter().for_each(|p| self.kill_proc(&p)) of kill_proc_list,
\* from the i-th record of proc_list on; results[i] is how its `kill -9` ends
RECURSIVE KillEach(_, _, _, _)
KillEach(procs, proc_list, results, i) ==
    IF i > Len(proc_list) THEN procs
    ELSE KillEach(kill_proc(procs, proc_list[i], results[i]),
                  proc_list, results, i + 1)

\* the proc_list of kill_proc_list: clones of the records with the command
ProcList(procs, name) == SelectSeq(procs, LAMBDA proc : proc.command = name)

\* Monitor::kill_proc_list: the snapshot it leaves
kill_proc_list(procs, name, results) ==
    KillEach(procs, ProcList(procs, name), results, 1)

(***************************************************************************)
(* State                                                                   *)
(***************************************************************************)
VARIABLES
    interval,           \* Monitor.interval, hundredths of a second
    threshold,          \* Monitor.threshold, tenths
    num_matches,        \* Monitor.num_matches
                        \* (before App::new: what the command line asks for)
    current_procs,      \* Monitor.current_procs, the stored snapshot
    monitor_lock,       \* who holds App.monitor's mutex: "none", "poller", "fg"
    poisoned,           \* App.monitor's mutex is poisoned
    should_die,         \* App.should_die
    die_lock,           \* who holds App.should_die's mutex: "none", "poller", "fg"
    poller_pc,          \* where the thread of collect_data stands
    pending,            \* lines of the ps output not yet pushed
    ps_status,          \* how the run of ps in this cycle ended
    fg_pc,              \* where main / App::run stands
    show_help,          \* run's show_help
    search_input,       \* run's search_input
    run_current_procs,  \* run's current_procs, the candidate list
    num_lines,          \* run's num_lines
    current_process,    \* run's current_process
    current_line,       \* App.current_line, the scroll offset
    pointer,            \* App.pointer
    tick_read,          \* what try_lock answered in the last draw
    kill_res            \* how the last `kill -9` ended

monitor_vars == << interval, threshold, num_matches, current_procs,
                   monitor_lock, poisoned >>
poller_vars == << poller_pc, pending, ps_status >>
run_vars == << show_help, search_input, run_current_procs, num_lines,
               current_process, current_line, pointer >>
die_vars == << should_die, die_lock >>
vars == << monitor_vars, die_vars, poller_vars, fg_pc, run_vars,
           tick_read, kill_res >>

\* the command line: --update-interval, --threshold, --num-matches
\* (None becomes 3.0, 0.3 and 25 in App::new)
ArgsUpdateInterval == { 300 }
ArgsThreshold == { 3 }
ArgsNumMatches == { 25 }

\* App::new, up to and including collect_data's thread::spawn
Init ==
    /\ \E inter \in ArgsUpdateInterval, thres \in ArgsThreshold,
          num \in ArgsNumMatches :
          LET m == MonitorNew(inter, thres, num)
          IN  /\ interval = m.interval
              /\ threshold = m.threshold
              /\ num_matches = m.num_matches
    /\ current_procs = << >>
    /\ monitor_lock = "none"
    /\ poisoned = FALSE
    /\ should_die = FALSE
    /\ die_lock = "none"
    /\ poller_pc = "interval"
    /\ pending = << >>
    /\ ps_status = "none"
    /\ fg_pc = "draw"
    /\ show_help = FALSE
    /\ search_input = << >>
    /\ run_current_procs = << >>
    /\ num_lines = 0
    /\ current_process = NewProcess
    /\ current_line = 0
    /\ pointer = 0
    /\ tick_read = "none"
    /\ kill_res = "none"

(***************************************************************************)
(* The poller thread: App::collect_data                                    *)
(***************************************************************************)
\* mon.lock().unwrap().get_interval()
PollerGetInterval ==
    /\ poller_pc = "interval"
    /\ monitor_lock = "none"
    /\ poller_pc' = IF poisoned THEN "panicked" ELSE "check"
    /\ UNCHANGED << monitor_vars, die_vars, pending, ps_status,
                    fg_pc, run_vars, tick_read, kill_res >>

\* die.lock().unwrap(): blocks while the mutex of the flag is held
PollerDieLock ==
    /\ poller_pc = "check"
    /\ die_lock = "none"
    /\ die_lock' = "poller"
    /\ poller_pc' = "die"
    /\ UNCHANGED << monitor_vars, should_die, pending, ps_status,
                    fg_pc, run_vars, tick_read, kill_res >>

\* a read of the flag whose guard lives on to the end of the loop body
PollerCheckDie_KeepingGuard ==
    /\ poller_pc = "die"
    /\ poller_pc' = IF should_die THEN "done" ELSE "lock"
    /\ UNCHANGED << monitor_vars, die_vars, pending, ps_status,
                    fg_pc, run_vars, tick_read, kill_res >>

\* if *die.lock().unwrap() { break; }: the flag is read and the guard dropped
PollerCheckDie ==
    /\ poller_pc = "die"
    /\ poller_pc' = IF should_die THEN "done" ELSE "lock"
    /\ die_lock' = "none"
    /\ UNCHANGED << monitor_vars, should_die, pending, ps_status,
                    fg_pc, run_vars, tick_read, kill_res >>

\* mon.lock().unwrap(): blocks while the mutex is held
PollerLock ==
    /\ poller_pc = "lock"
    /\ monitor_lock = "none"
    /\ IF poisoned
       THEN /\ poller_pc' = "panicked"
            /\ UNCHANGED monitor_lock
       ELSE /\ poller_pc' = "ps"
            /\ monitor_lock' = "poller"
    /\ UNCHANGED << interval, threshold, num_matches, current_procs, poisoned,
                    die_vars, pending, ps_status,
                    fg_pc, run_vars, tick_read, kill_res >>

\* how Command::new("ps")...output() can end
PsResults ==
    { [ status |-> "spawn_failure", stdout |-> << >> ],
      [ status |-> "exit_failure", stdout |-> << >> ],
      [ status |-> "decode_failure", stdout |-> << >> ] }
    \cup { [ status |-> "success", stdout |-> out ] : out \in PsOutputs }

\* Iterator::skip(1)
skip1(lines) == IF lines = << >> THEN << >> ELSE Tail(lines)

\* a get_procs_from_system that clears before it looks at the result of ps
AfterPs_ClearingFirst(procs, result) ==
    IF result.status = "success"
    THEN [ procs |-> << >>, lines |-> skip1(result.stdout), cleared |-> TRUE ]
    ELSE [ procs |-> << >>, lines |-> << >>, cleared |-> FALSE ]

\* a get_procs_from_system without current_procs.clear()
AfterPs_KeepingOld(procs, result) ==
    IF result.status = "success"
    THEN [ procs |-> procs, lines |-> skip1(result.stdout), cleared |-> TRUE ]
    ELSE [ procs |-> procs, lines |-> << >>, cleared |-> FALSE ]

\* get_procs_from_system up to and including current_procs.clear(): the
\* snapshot and the lines still to push, or the snapshot as it was
AfterPs(procs, result) ==
    IF result.status = "success"
    THEN [ procs |-> << >>, lines |-> skip1(result.stdout), cleared |-> TRUE ]
    ELSE [ procs |-> procs, lines |-> << >>, cleared |-> FALSE ]

\* get_procs_from_system, with the mutex held: ps runs, .expect() panics when
\* it could not be spawned, the two early returns, clear()
PollerPs(result) ==
    /\ poller_pc = "ps"
    /\ ps_status' = result.status
    /\ IF result.status = "spawn_failure"
       THEN /\ poller_pc' = "panicked"
            /\ poisoned' = TRUE
            /\ monitor_lock' = "none"
            /\ UNCHANGED << current_procs, pending >>
       ELSE LET after == AfterPs(current_procs, result)
            IN  /\ current_procs' = after.procs
                /\ pending' = after.lines
                /\ poller_pc' = IF after.cleared THEN "fill" ELSE "sleep"
                /\ monitor_lock' = IF after.cleared THEN "poller" ELSE "none"
                /\ UNCHANGED poisoned
    /\ UNCHANGED << interval, threshold, num_matches, die_vars,
                    fg_pc, run_vars, tick_read, kill_res >>

\* one round of res.lines().skip(1).for_each(...)
PollerPush ==
    /\ poller_pc = "fill"
    /\ pending # << >>
    /\ current_procs' = Append(current_procs, ParseLine(Head(pending)))
    /\ pending' = Tail(pending)
    /\ UNCHANGED << interval, threshold, num_matches, monitor_lock, poisoned,
                    die_vars, poller_pc, ps_status,
                    fg_pc, run_vars, tick_read, kill_res >>

\* get_procs_from_system returns and the guard is dropped
PollerRefreshDone ==
    /\ poller_pc = "fill"
    /\ pending = << >>
    /\ monitor_lock' = "none"
    /\ poller_pc' = "sleep"
    /\ UNCHANGED << interval, threshold, num_matches, current_procs, poisoned,
                    die_vars, pending, ps_status,
                    fg_pc, run_vars, tick_read, kill_res >>

\* thread::sleep(time_to_sleep), then the next round of the loop
PollerSleep ==
    /\ poller_pc = "sleep"
    /\ poller_pc' = "check"
    /\ ps_status' = "none"
    /\ UNCHANGED << monitor_vars, die_vars, pending,
                    fg_pc, run_vars, tick_read, kill_res >>

Poller ==
    \/ PollerGetInterval
    \/ PollerDieLock
    \/ PollerCheckDie
    \/ PollerLock
    \/ \E result \in PsResults : PollerPs(result)
    \/ PollerPush
    \/ PollerRefreshDone
    \/ PollerSleep

(***************************************************************************)
(* The foreground thread: App::run and main                                *)
(***************************************************************************)
\* a try_lock that does not look at who holds the mutex
try_lock_ignoring_holder == IF ~ poisoned THEN "Ok" ELSE "Err"

\* Mutex::try_lock: Ok only when nobody holds the mutex and it is not poisoned
try_lock == IF monitor_lock = "none" /\ ~ poisoned THEN "Ok" ELSE "Err"

\* a read that empties the candidate list when the lock is not obtained
ReadStore_ClearingOnErr(answer) ==
    IF answer = "Ok"
    THEN IF Len(search_input) > 0
         THEN unwrap_or(get_procs_by_name_fuzzy(current_procs, search_input,
                            is_ascii_digit(Head(search_input)),
                            threshold, num_matches), << >>)
         ELSE unwrap_or(get_all_procs(current_procs), << >>)
    ELSE << >>

\* the match on self.monitor.try_lock(): what run's current_procs becomes
ReadStore(answer) ==
    IF answer = "Ok"
    THEN IF Len(search_input) > 0
         THEN unwrap_or(get_procs_by_name_fuzzy(current_procs, search_input,
                            is_ascii_digit(Head(search_input)),
                            threshold, num_matches), << >>)
         ELSE unwrap_or(get_all_procs(current_procs), << >>)
    ELSE run_current_procs

\* the sort that follows the read
SortIfNoSearch(procs) ==
    IF Len(search_input) = 0 THEN SortByCommand(procs) ELSE procs

\* current_procs.iter().skip(self.current_line).take(num_lines)
VisibleRows(procs, skip, take) ==
    SubSeq(procs, skip + 1, Min(Len(procs), skip + take))

\* the row the closure copies into current_process, if there is one
PointedRow(procs) ==
    LET rows == VisibleRows(procs, current_line, num_lines)
    IN  IF pointer + 1 <= Len(rows) THEN Some(rows[pointer + 1]) ELSE None

\* Rect::new(0, 0, width, proc_list_size).inner(Margin::new(1, 1)).height
NumLines(height) == saturating_sub(saturating_sub(height, 3), 2)

\* one call of terminal.draw(|frame| ...) that returns Ok
Draw(height) ==
    /\ fg_pc = "draw"
    /\ fg_pc' = "poll"
    /\ IF height < 8 \/ show_help
       THEN /\ tick_read' = "none"
            /\ UNCHANGED << run_current_procs, current_process, num_lines >>
       ELSE LET answer == try_lock
                procs == SortIfNoSearch(ReadStore(answer))
            IN  /\ tick_read' = answer
                /\ run_current_procs' = procs
                /\ current_process' = unwrap_or(PointedRow(procs), current_process)
                /\ num_lines' = NumLines(height)
    /\ kill_res' = "none"
    /\ UNCHANGED << monitor_vars, die_vars, poller_vars, show_help,
                    search_input, current_line, pointer >>

\* terminal.draw(...)? returns Err: run returns it, should_die stays unset
\* (what the closure assigned before the error is dead after the return)
DrawError ==
    /\ fg_pc = "draw"
    /\ fg_pc' = "returned"
    /\ UNCHANGED << monitor_vars, die_vars, poller_vars, run_vars,
                    tick_read, kill_res >>

\* event::poll timed out, or an event no arm handles
NoEvent ==
    /\ fg_pc = "poll"
    /\ fg_pc' = "draw"
    /\ tick_read' = "none"
    /\ UNCHANGED << monitor_vars, die_vars, poller_vars, run_vars, kill_res >>

\* ctrl+b
ClearSearch ==
    /\ fg_pc = "poll"
    /\ fg_pc' = "draw"
    /\ tick_read' = "none"
    /\ pointer' = IF Len(search_input) > 0 THEN 0 ELSE pointer
    /\ current_line' = IF Len(search_input) > 0 THEN 0 ELSE current_line
    /\ search_input' = << >>
    /\ UNCHANGED << monitor_vars, die_vars, poller_vars, show_help,
                    run_current_procs, num_lines, current_process, kill_res >>

\* ctrl+h
ToggleHelp ==
    /\ fg_pc = "poll"
    /\ fg_pc' = "draw"
    /\ tick_read' = "none"
    /\ show_help' = ~ show_help
    /\ UNCHANGED << monitor_vars, die_vars, poller_vars, search_input,
                    run_current_procs, num_lines, current_process,
                    current_line, pointer, kill_res >>

\* ctrl+r
ResetScroll ==
    /\ fg_pc = "poll"
    /\ fg_pc' = "draw"
    /\ tick_read' = "none"
    /\ current_line' = 0
    /\ pointer' = 0
    /\ UNCHANGED << monitor_vars, die_vars, poller_vars, show_help,
                    search_input, run_current_procs, num_lines,
                    current_process, kill_res >>

\* ctrl+q, ctrl+c: self.should_die.lock() is called
QuitSelected ==
    /\ fg_pc = "poll"
    /\ fg_pc' = "quit_lock"
    /\ tick_read' = "none"
    /\ UNCHANGED << monitor_vars, die_vars, poller_vars, run_vars, kill_res >>

\* self.should_die.lock().unwrap(): blocks while the poller reads the flag
QuitLock ==
    /\ fg_pc = "quit_lock"
    /\ die_lock = "none"
    /\ die_lock' = "fg"
    /\ fg_pc' = "quit"
    /\ UNCHANGED << monitor_vars, should_die, poller_vars, run_vars,
                    tick_read, kill_res >>

\* *guard = true; the guard is dropped; return Ok(())
Quit ==
    /\ fg_pc = "quit"
    /\ should_die' = TRUE
    /\ die_lock' = "none"
    /\ fg_pc' = "returned"
    /\ UNCHANGED << monitor_vars, poller_vars, run_vars, tick_read, kill_res >>

\* KeyCode::Char(char) without ctrl
TypeChar(char) ==
    /\ fg_pc = "poll"
    /\ Len(search_input) < MaxQuery
    /\ fg_pc' = "draw"
    /\ tick_read' = "none"
    /\ search_input' = Append(search_input, char)
    /\ pointer' = 0
    /\ current_line' = 0
    /\ UNCHANGED << monitor_vars, die_vars, poller_vars, show_help,
                    run_current_procs, num_lines, current_process, kill_res >>

\* String::pop
pop(str) == IF str = << >> THEN << >> ELSE SubSeq(str, 1, Len(str) - 1)

\* a backspace that leaves the selection where it is
Backspace_KeepingSelection ==
    /\ fg_pc = "poll"
    /\ fg_pc' = "draw"
    /\ tick_read' = "none"
    /\ search_input' = pop(search_input)
    /\ UNCHANGED << monitor_vars, die_vars, poller_vars, show_help,
                    run_current_procs, num_lines, current_process,
                    current_line, pointer, kill_res >>

\* KeyCode::Backspace
Backspace ==
    /\ fg_pc = "poll"
    /\ fg_pc' = "draw"
    /\ tick_read' = "none"
    /\ search_input' = pop(search_input)
    /\ pointer' = 0
    /\ current_line' = 0
    /\ UNCHANGED << monitor_vars, die_vars, poller_vars, show_help,
                    run_current_procs, num_lines, current_process, kill_res >>

\* a move down that takes the pointer to the last visible row before the
\* list scrolls
MoveDown_PointerFirst(line, ptr, count, lines) ==
    LET last_row == saturating_sub(Min(saturating_sub(lines, 2), count), 1)
    IN  IF ptr < last_row
        THEN [ current_line |-> line, pointer |-> ptr + 1 ]
        ELSE [ current_line |->
                   Min(line + 1, saturating_sub(count, saturating_sub(lines, 2))),
               pointer |-> ptr ]

\* a move down that scrolls whatever the length of the list
MoveDown_Unclamped(line, ptr, count, lines) ==
    [ current_line |-> line + 1, pointer |-> ptr ]

\* the arm of KeyCode::Down and of MouseEventKind::ScrollDown:
\* the new (current_line, pointer)
MoveDown(line, ptr, count, lines) ==
    LET next_line == Min(line + 1, saturating_sub(count, saturating_sub(lines, 2)))
    IN  [ current_line |-> next_line,
          pointer |-> IF next_line = line
                      THEN Min(ptr + 1, saturating_sub(count, next_line + 1))
                      ELSE ptr ]

\* the arm of KeyCode::Up and of MouseEventKind::ScrollUp
MoveUp(line, ptr) ==
    LET next_line == saturating_sub(line, 1)
    IN  [ current_line |-> next_line,
          pointer |-> IF next_line = line THEN saturating_sub(ptr, 1) ELSE ptr ]

\* KeyCode::Down
KeyDown ==
    /\ fg_pc = "poll"
    /\ fg_pc' = "draw"
    /\ tick_read' = "none"
    /\ LET to == MoveDown(current_line, pointer, Len(run_current_procs), num_lines)
       IN  /\ current_line' = to.current_line
           /\ pointer' = to.pointer
    /\ UNCHANGED << monitor_vars, die_vars, poller_vars, show_help,
                    search_input, run_current_procs, num_lines,
                    current_process, kill_res >>

\* KeyCode::Up
KeyUp ==
    /\ fg_pc = "poll"
    /\ fg_pc' = "draw"
    /\ tick_read' = "none"
    /\ LET to == MoveUp(current_line, pointer)
       IN  /\ current_line' = to.current_line
           /\ pointer' = to.pointer
    /\ UNCHANGED << monitor_vars, die_vars, poller_vars, show_help,
                    search_input, run_current_procs, num_lines,
                    current_process, kill_res >>

\* MouseEventKind::ScrollDown
ScrollDown ==
    /\ fg_pc = "poll"
    /\ fg_pc' = "draw"
    /\ tick_read' = "none"
    /\ LET to == MoveDown(current_line, pointer, Len(run_current_procs), num_lines)
       IN  /\ current_line' = to.current_line
           /\ pointer' = to.pointer
    /\ UNCHANGED << monitor_vars, die_vars, poller_vars, show_help,
                    search_input, run_current_procs, num_lines,
                    current_process, kill_res >>

\* MouseEventKind::ScrollUp
ScrollUp ==
    /\ fg_pc = "poll"
    /\ fg_pc' = "draw"
    /\ tick_read' = "none"
    /\ LET to == MoveUp(current_line, pointer)
       IN  /\ current_line' = to.current_line
           /\ pointer' = to.pointer
    /\ UNCHANGED << monitor_vars, die_vars, poller_vars, show_help,
                    search_input, run_current_procs, num_lines,
                    current_process, kill_res >>

\* ctrl+k, first half: self.monitor.lock() is called
KillSelected ==
    /\ fg_pc = "poll"
    /\ fg_pc' = "kill_lock"
    /\ tick_read' = "none"
    /\ UNCHANGED << monitor_vars, die_vars, poller_vars, run_vars, kill_res >>

\* a lock that is granted whoever holds the mutex
KillLock_IgnoringHolder ==
    /\ fg_pc = "kill_lock"
    /\ IF poisoned
       THEN /\ fg_pc' = "panicked"
            /\ UNCHANGED monitor_lock
       ELSE /\ fg_pc' = "kill_cmd"
            /\ monitor_lock' = "fg"
    /\ UNCHANGED << interval, threshold, num_matches, current_procs, poisoned,
                    die_vars, poller_vars, run_vars, tick_read, kill_res >>

\* self.monitor.lock().unwrap(): blocks while the poller holds the mutex,
\* panics when the mutex is poisoned
KillLock ==
    /\ fg_pc = "kill_lock"
    /\ monitor_lock = "none"
    /\ IF poisoned
       THEN /\ fg_pc' = "panicked"
            /\ UNCHANGED monitor_lock
       ELSE /\ fg_pc' = "kill_cmd"
            /\ monitor_lock' = "fg"
    /\ UNCHANGED << interval, threshold, num_matches, current_procs, poisoned,
                    die_vars, poller_vars, run_vars, tick_read, kill_res >>

\* how Command::new("kill").arg("-9").arg(pid).output() can end
KillResults == { "spawn_failure", "exit_failure", "success" }

\* kill_proc, with the mutex held: `kill -9 pid` runs, then the early returns
\* or the removal; the guard is dropped
KillProc(res) ==
    /\ fg_pc = "kill_cmd"
    /\ kill_res' = res
    /\ current_procs' = kill_proc(current_procs, current_process, res)
    /\ monitor_lock' = "none"
    /\ fg_pc' = "draw"
    /\ UNCHANGED << interval, threshold, num_matches, poisoned, die_vars,
                    poller_vars, run_vars, tick_read >>

\* main after run has returned: app.join_threads(), thread.join().unwrap()
JoinThreads ==
    /\ fg_pc = "returned"
    /\ poller_pc \in { "done", "panicked" }
    /\ fg_pc' = IF poller_pc = "panicked" THEN "panicked" ELSE "joined"
    /\ UNCHANGED << monitor_vars, die_vars, poller_vars, run_vars,
                    tick_read, kill_res >>

Foreground ==
    \/ \E height \in Heights : Draw(height)
    \/ DrawError
    \/ NoEvent
    \/ ClearSearch
    \/ ToggleHelp
    \/ ResetScroll
    \/ QuitSelected
    \/ QuitLock
    \/ Quit
    \/ \E char \in TypedChars : TypeChar(char)
    \/ Backspace
    \/ KeyDown
    \/ KeyUp
    \/ ScrollDown
    \/ ScrollUp
    \/ KillSelected
    \/ KillLock
    \/ \E res \in KillResults : KillProc(res)
    \/ JoinThreads

Next == Poller \/ Foreground

Spec == Init /\ [][Next]_vars

\* the scheduler runs a thread that can run: the spawned thread takes its
\* next step when that stays possible, and so does main once run has returned
FairSpec == Spec /\ WF_vars(Poller) /\ WF_vars(JoinThreads)

(***************************************************************************)
(* kill_proc on its own: the foreground thread stands in kill_proc with    *)
(* the mutex held, over any snapshot of the records below                  *)
(***************************************************************************)
\* records of four listed processes; two of them carry the sentinel pid,
\* two of them the same command
KillRecords ==
    { ParseLine(AllLines[i]) : i \in 1 .. Len(AllLines) }
    \cup { ParseLine(<< <<"b","b">>, <<"c">>, <<"5">>, <<"3">>, <<"4">> >>),
           ParseLine(<< <<"a">>, <<"7">>, <<"3">>, <<"4">> >>) }

\* the snapshots without a repeated record, by length
RECURSIVE SnapshotsOfLen(_)
SnapshotsOfLen(n) ==
    IF n = 0 THEN { << >> }
    ELSE { Append(procs, r) : procs \in SnapshotsOfLen(n - 1), r \in KillRecords }
         \ { Append(procs, procs[i]) :
                 procs \in SnapshotsOfLen(n - 1), i \in 1 .. n - 1 }

KillSnapshots == UNION { SnapshotsOfLen(n) : n \in 0 .. MaxKillProcs }

KillInit ==
    /\ \E m \in { MonitorNew(300, 3, 25) } :
          /\ interval = m.interval
          /\ threshold = m.threshold
          /\ num_matches = m.num_matches
    /\ current_procs \in KillSnapshots
    /\ monitor_lock = "fg"
    /\ poisoned = FALSE
    /\ should_die = FALSE
    /\ die_lock = "none"
    /\ poller_pc = "lock"
    /\ pending = << >>
    /\ ps_status = "none"
    /\ fg_pc = "kill_cmd"
    /\ show_help = FALSE
    /\ search_input = << >>
    /\ run_current_procs = SortByCommand(current_procs)
    /\ num_lines = 4
    /\ current_process \in KillRecords \cup { NewProcess }
    /\ current_line = 0
    /\ pointer = 0
    /\ tick_read = "none"
    /\ kill_res = "none"

KillNext == \E res \in KillResults : KillProc(res)

SpecKill == KillInit /\ [][KillNext]_vars

(***************************************************************************)
(* The program from before App::new: the three variables of the            *)
(* configuration hold what the command line asks for, App::new builds the  *)
(* Monitor from them and spawns the poller; then refreshes, draws, kills   *)
(***************************************************************************)
\* --update-interval in hundredths of a second (absent: 3.0)
ConfigArgsUpdateInterval == { 50, 75, 300 }

\* --threshold in tenths (absent: 0.3)
ConfigArgsThreshold == { 0 - 1, 3, 11 }

\* --num-matches (absent: 25)
ConfigArgsNumMatches == { 0, 25 }

ConfigInit ==
    /\ interval \in ConfigArgsUpdateInterval
    /\ threshold \in ConfigArgsThreshold
    /\ num_matches \in ConfigArgsNumMatches
    /\ current_procs = << >>
    /\ monitor_lock = "none"
    /\ poisoned = FALSE
    /\ should_die = FALSE
    /\ die_lock = "none"
    /\ poller_pc = "unspawned"
    /\ pending = << >>
    /\ ps_status = "none"
    /\ fg_pc = "new"
    /\ show_help = FALSE
    /\ search_input \in { << >>, << "b" >> }
    /\ run_current_procs = << >>
    /\ num_lines = 0
    /\ current_process = NewProcess
    /\ current_line = 0
    /\ pointer = 0
    /\ tick_read = "none"
    /\ kill_res = "none"

\* App::new: Monitor::new(...) with what was asked for, then collect_data
\* spawns the poller
AppNew ==
    /\ fg_pc = "new"
    /\ LET m == MonitorNew(interval, threshold, num_matches)
       IN  /\ interval' = m.interval
           /\ threshold' = m.threshold
           /\ num_matches' = m.num_matches
    /\ poller_pc' = "interval"
    /\ fg_pc' = "draw"
    /\ UNCHANGED << current_procs, monitor_lock, poisoned, die_vars, pending,
                    ps_status, run_vars, tick_read, kill_res >>

ConfigNext ==
    \/ AppNew
    \/ Poller
    \/ \E height \in Heights : Draw(height)
    \/ NoEvent
    \/ KillSelected
    \/ KillLock
    \/ \E res \in KillResults : KillProc(res)

SpecConfig == ConfigInit /\ [][ConfigNext]_vars

(***************************************************************************)
(* kill_proc_list on its own: a caller that holds the mutex asks for the   *)
(* processes with the command of the selected one to be killed             *)
(***************************************************************************)
\* how the runs of `kill -9` for n processes can end
RECURSIVE KillResultSeqs(_)
KillResultSeqs(n) ==
    IF n = 0 THEN { << >> }
    ELSE { Append(results, res) : results \in KillResultSeqs(n - 1), res \in KillResults }

\* one call of kill_proc_list(name), with the mutex held
KillProcList(name, results) ==
    /\ fg_pc = "kill_list"
    /\ Len(results) = Len(ProcList(current_procs, name))
    /\ current_procs' = kill_proc_list(current_procs, name, results)
    /\ kill_res' = IF results = << >> THEN "none" ELSE results[Len(results)]
    /\ monitor_lock' = "none"
    /\ fg_pc' = "draw"
    /\ UNCHANGED << interval, threshold, num_matches, poisoned, die_vars,
                    poller_vars, run_vars, tick_read >>

KillListInit ==
    /\ \E m \in { MonitorNew(300, 3, 25) } :
          /\ interval = m.interval
          /\ threshold = m.threshold
          /\ num_matches = m.num_matches
    /\ current_procs \in KillSnapshots
    /\ monitor_lock = "fg"
    /\ poisoned = FALSE
    /\ should_die = FALSE
    /\ die_lock = "none"
    /\ poller_pc = "lock"
    /\ pending = << >>
    /\ ps_status = "none"
    /\ fg_pc = "kill_list"
    /\ show_help = FALSE
    /\ search_input = << >>
    /\ run_current_procs = SortByCommand(current_procs)
    /\ num_lines = 4
    /\ current_process \in KillRecords \cup { NewProcess }
    /\ current_line = 0
    /\ pointer = 0
    /\ tick_read = "none"
    /\ kill_res = "none"

KillListNext ==
    \E results \in UNION { KillResultSeqs(n) : n \in 0 .. MaxKillProcs } :
        KillProcList(current_process.command, results)

SpecKillList == KillListInit /\ [][KillListNext]_vars

(***************************************************************************)
(* The ranking on its own: one draw reads a snapshot of the records above   *)
(* through get_procs_by_name_fuzzy, for any query, threshold, num_matches  *)
(***************************************************************************)
\* the non-empty strings the operator can have typed
RECURSIVE QueriesOfLen(_)
QueriesOfLen(n) ==
    IF n = 0 THEN { << >> }
    ELSE { Append(q, c) : q \in QueriesOfLen(n - 1), c \in TypedChars }

Queries == UNION { QueriesOfLen(n) : n \in 1 .. MaxQuery }

\* --threshold in tenths, a tenth outside [0, 1] on either side included
RankArgsThreshold == (0 - 1) .. 11

\* --num-matches, up to the length of the longest snapshot
RankArgsNumMatches == 0 .. MaxKillProcs

RankInit ==
    /\ \E thres \in RankArgsThreshold, num \in RankArgsNumMatches :
          LET m == MonitorNew(300, thres, num)
          IN  /\ interval = m.interval
              /\ threshold = m.threshold
              /\ num_matches = m.num_matches
    /\ current_procs \in KillSnapshots
    /\ monitor_lock = "none"
    /\ poisoned = FALSE
    /\ should_die = FALSE
    /\ die_lock = "none"
    /\ poller_pc = "sleep"
    /\ pending = << >>
    /\ ps_status = "none"
    /\ fg_pc = "draw"
    /\ show_help = FALSE
    /\ search_input \in Queries
    /\ run_current_procs = << >>
    /\ num_lines = 0
    /\ current_process = NewProcess
    /\ current_line = 0
    /\ pointer = 0
    /\ tick_read = "none"
    /\ kill_res = "none"

RankNext == \E height \in Heights : Draw(height)

SpecRank == RankInit /\ [][RankNext]_vars

(***************************************************************************)
(* The selection over a list of 30 records in a terminal of 17 lines, which *)
(* shows 10 rows of the list: the foreground thread alone                  *)
(***************************************************************************)
\* 30 processes a0 .. a29
ScenarioRecords ==
    [ i \in 1 .. 30 |->
        ParseLine(<< <<"a">> \o NatToString(i - 1), NatToString(100 + i),
                     <<"3">>, <<"4">> >>) ]

ScenarioInit ==
    /\ \E m \in { MonitorNew(300, 3, 25) } :
          /\ interval = m.interval
          /\ threshold = m.threshold
          /\ num_matches = m.num_matches
    /\ current_procs = ScenarioRecords
    /\ monitor_lock = "none"
    /\ poisoned = FALSE
    /\ should_die = FALSE
    /\ die_lock = "none"
    /\ poller_pc = "sleep"
    /\ pending = << >>
    /\ ps_status = "none"
    /\ fg_pc = "poll"
    /\ show_help = FALSE
    /\ search_input = << >>
    /\ run_current_procs = SortByCommand(current_procs)
    /\ num_lines = NumLines(17)
    /\ current_process = run_current_procs[1]
    /\ current_line = 0
    /\ pointer = 0
    /\ tick_read = "Ok"
    /\ kill_res = "none"

ScenarioNext == KeyDown \/ KeyUp \/ Draw(17)

SpecScenario == ScenarioInit /\ [][ScenarioNext]_vars

(***************************************************************************)
(* The selection over a list and a terminal that stay as they are: lists   *)
(* of 0 .. MaxScroll records, terminals that show 1 .. MaxScroll + 1 rows, *)
(* the foreground thread alone with the keys and the wheel that move or    *)
(* reset the selection                                                     *)
(***************************************************************************)
MaxScroll == 5

\* terminal heights from the smallest that draws the list
ScrollHeights == 8 .. 8 + MaxScroll

ScrollInit ==
    /\ \E m \in { MonitorNew(300, 3, 25) } :
          /\ interval = m.interval
          /\ threshold = m.threshold
          /\ num_matches = m.num_matches
    /\ \E n \in 0 .. MaxScroll : current_procs = SubSeq(ScenarioRecords, 1, n)
    /\ monitor_lock = "none"
    /\ poisoned = FALSE
    /\ should_die = FALSE
    /\ die_lock = "none"
    /\ poller_pc = "sleep"
    /\ pending = << >>
    /\ ps_status = "none"
    /\ fg_pc = "poll"
    /\ show_help = FALSE
    /\ search_input = << >>
    /\ run_current_procs = SortByCommand(current_procs)
    /\ \E height \in ScrollHeights : num_lines = NumLines(height)
    /\ current_process = IF run_current_procs = << >> THEN NewProcess
                         ELSE run_current_procs[1]
    /\ current_line = 0
    /\ pointer = 0
    /\ tick_read = "Ok"
    /\ kill_res = "none"

\* the next draw, in a terminal that has kept its height
Redraw == \E height \in ScrollHeights : NumLines(height) = num_lines /\ Draw(height)

ScrollNext ==
    KeyDown \/ KeyUp \/ ScrollDown \/ ScrollUp \/ ResetScroll \/ Redraw

SpecScroll == ScrollInit /\ [][ScrollNext]_vars

(***************************************************************************)
(* get_procs_from_system on its own: the poller stands in it with the      *)
(* mutex held, over any previous snapshot and any listing of up to         *)
(* MaxLines lines                                                          *)
(***************************************************************************)
MaxLines == 2

\* lines ps can print, as their whitespace-separated fields: a blank line, a
\* lone command, a line cut after the pid, two full lines, a pid with a sign,
\* a command with a blank in it (five fields, the pid read from "c")
RefreshLines ==
    { << >>,
      << <<"a">> >>,
      << <<"a">>, <<"7">> >>,
      << <<"b","b">>, <<"1">>, <<"3">>, <<"4">> >>,
      << <<"a">>, <<"1","0">>, <<"5">>, <<"4">> >>,
      << <<"a">>, <<"+","7">>, <<"3">>, <<"4">> >>,
      << <<"b","a">>, <<"c">>, <<"2">>, <<"3">>, <<"4">> >> }

\* the listings of n lines
RECURSIVE ListingsOfLen(_)
ListingsOfLen(n) ==
    IF n = 0 THEN { << >> }
    ELSE { Append(lines, l) : lines \in ListingsOfLen(n - 1), l \in RefreshLines }

\* what ps can write to stdout: nothing at all, or the header and a listing
RefreshOutputs ==
    { << >> }
    \cup { << HeaderLine >> \o lines :
              lines \in UNION { ListingsOfLen(n) : n \in 0 .. MaxLines } }

RefreshResults ==
    { [ status |-> "spawn_failure", stdout |-> << >> ],
      [ status |-> "exit_failure", stdout |-> << >> ],
      [ status |-> "decode_failure", stdout |-> << >> ] }
    \cup { [ status |-> "success", stdout |-> out ] : out \in RefreshOutputs }

RefreshInit ==
    /\ \E m \in { MonitorNew(300, 3, 25) } :
          /\ interval = m.interval
          /\ threshold = m.threshold
          /\ num_matches = m.num_matches
    /\ current_procs \in KillSnapshots
    /\ monitor_lock = "poller"
    /\ poisoned = FALSE
    /\ should_die = FALSE
    /\ die_lock = "none"
    /\ poller_pc = "ps"
    /\ pending = << >>
    /\ ps_status = "none"
    /\ fg_pc = "poll"
    /\ show_help = FALSE
    /\ search_input = << >>
    /\ run_current_procs = << >>
    /\ num_lines = 0
    /\ current_process = NewProcess
    /\ current_line = 0
    /\ pointer = 0
    /\ tick_read = "none"
    /\ kill_res = "none"

RefreshNext ==
    \/ \E result \in RefreshResults : PollerPs(result)
    \/ PollerPush
    \/ PollerRefreshDone

SpecRefresh == RefreshInit /\ [][RefreshNext]_vars

TypeOK ==
    /\ monitor_lock \in { "none", "poller", "fg" }
    /\ die_lock \in { "none", "poller", "fg" }
    /\ poller_pc \in { "unspawned", "interval", "check", "die", "lock", "ps",
                       "fill", "sleep", "done", "panicked" }
    /\ fg_pc \in { "new", "draw", "poll", "kill_lock", "kill_cmd", "kill_list",
                   "quit_lock", "quit", "returned", "joined", "panicked" }
    /\ tick_read \in { "none", "Ok", "Err" }
    /\ current_line \in Nat
    /\ pointer \in Nat

(***************************************************************************)
(* Properties                                                              *)
(***************************************************************************)
\* b holds the records of a, each as often as a does
IsPermutation(a, b) ==
    /\ Len(a) = Len(b)
    /\ \A x \in { a[i] : i \in 1 .. Len(a) } :
          Cardinality({ i \in 1 .. Len(a) : a[i] = x })
              = Cardinality({ i \in 1 .. Len(b) : b[i] = x })

\* no record stands before one with a smaller command
InCommandOrder(procs) ==
    \A i \in 1 .. Len(procs) : \A j \in i + 1 .. Len(procs) :
        ~ StrLess(procs[j].command, procs[i].command)

\* a draw that got as far as try_lock while the poller held the mutex
ContendedTick ==
    /\ fg_pc = "draw"
    /\ fg_pc' = "poll"
    /\ tick_read' # "none"
    /\ monitor_lock = "poller"

\* C1 as stated: a tick that finds the poller holding the store lock does not
\* wait for it, and renders exactly the candidate list of the previous tick.
C1_ContendedTickKeepsList ==
    [][ContendedTick =>
          /\ tick_read' = "Err"
          /\ monitor_lock' = "poller"
          /\ run_current_procs' = run_current_procs]_vars

\* C1 amended: a tick that finds the poller holding the store lock does not
\* wait for it, and renders exactly the records of the previous tick's list:
\* the same list while there is a query, that list in command order while the
\* query is empty.
C1_ContendedTickKeepsRecords ==
    [][ContendedTick =>
          /\ tick_read' = "Err"
          /\ monitor_lock' = "poller"
          /\ IsPermutation(run_current_procs, run_current_procs')
          /\ Len(search_input) > 0 => run_current_procs' = run_current_procs
          /\ Len(search_input) = 0 => InCommandOrder(run_current_procs')
          /\ InCommandOrder(run_current_procs)
                => run_current_procs' = run_current_procs]_vars

\* a tick went by, mid-refresh, without the lock and kept a non-empty list
C1_Witness ==
    /\ fg_pc = "poll"
    /\ tick_read = "Err"
    /\ monitor_lock = "poller"
    /\ poller_pc = "fill"
    /\ run_current_procs # << >>
    /\ run_current_procs # current_procs

\* the store holds the cleared or a partly refilled sequence: clear() has
\* run and lines of the listing are still to be pushed
InsideRefresh == poller_pc = "fill" /\ pending # << >>

\* C2: no draw obtains the store between the clear() of a refresh and its
\* last push: the sequence a read returns is the complete snapshot from
\* before a refresh or the complete one after it.
C2_ReadSeesCompleteSnapshot ==
    [][(fg_pc = "draw" /\ tick_read' = "Ok") => ~ InsideRefresh]_vars

\* a read obtained the store before a refresh that is now half done
C2_Witness ==
    /\ tick_read = "Ok"
    /\ run_current_procs # << >>
    /\ poller_pc = "fill"
    /\ pending # << >>
    /\ current_procs # << >>

\* the selection invariant over the candidate list of the foreground thread
SelectionInvariant ==
    LET total_count == Len(run_current_procs)
    IN  /\ total_count > 0 => current_line + pointer <= total_count - 1
        /\ total_count = 0 => (current_line = 0 /\ pointer = 0)

\* C3: no event (move, reset, query change; the viewport may have been
\* resized before it) takes the selection out of the selection invariant.
C3_EventsKeepSelectionInvariant ==
    [][(fg_pc = "poll" /\ fg_pc' = "draw" /\ SelectionInvariant)
          => SelectionInvariant']_vars

\* rows the list pane shows: the column blocks have a border above and below
ViewportCapacity == saturating_sub(num_lines, 2)

\* C4: after every render of a non-empty candidate list the pointer is on a
\* visible row and the scroll offset is at most total_count - capacity.
C4_RenderClampsSelection ==
    (fg_pc = "poll" /\ tick_read # "none" /\ run_current_procs # << >>) =>
        LET total_count == Len(run_current_procs)
            visible_count == Min(ViewportCapacity,
                                 saturating_sub(total_count, current_line))
        IN  /\ pointer < Min(ViewportCapacity, visible_count)
            /\ current_line <= Max(0, total_count - ViewportCapacity)

\* C5: a kill is requested only for the record at index
\* current_line + pointer of the candidate list, and for none when the list
\* has no record there.
C5_KillOnlyTheSelection ==
    fg_pc \in { "kill_lock", "kill_cmd" } =>
        /\ current_line + pointer + 1 <= Len(run_current_procs)
        /\ current_process = run_current_procs[current_line + pointer + 1]

\* new is old without its first record of the pid, or old if there is none
FirstOfPidRemoved(old, new, pid) ==
    IF \E i \in 1 .. Len(old) : old[i].pid = pid
    THEN \E i \in 1 .. Len(old) :
            /\ old[i].pid = pid
            /\ \A j \in 1 .. i - 1 : old[j].pid # pid
            /\ Len(new) = Len(old) - 1
            /\ \A j \in 1 .. i - 1 : new[j] = old[j]
            /\ \A j \in i .. Len(new) : new[j] = old[j + 1]
    ELSE new = old

\* C6: a kill whose termination succeeded removes the first record with the
\* pid of the argument and nothing else, and keeps the order of the rest.
C6_KillRemovesFirstOfPid ==
    [][(fg_pc = "kill_cmd" /\ kill_res' = "success") =>
          FirstOfPidRemoved(current_procs, current_procs', current_process.pid)]_vars

\* a successful kill has left behind a later record with the same pid
C6_Witness ==
    /\ fg_pc = "draw"
    /\ kill_res = "success"
    /\ \E i \in 1 .. Len(current_procs) :
          /\ current_procs[i].pid = current_process.pid
          /\ current_procs[i] # current_process

\* C7: a kill whose termination could not be spawned or exited non-zero
\* leaves the snapshot as it was and returns to the loop.
C7_FailedKillKeepsSnapshot ==
    [][(fg_pc = "kill_cmd" /\ kill_res' \in { "spawn_failure", "exit_failure" }) =>
          /\ current_procs' = current_procs
          /\ fg_pc' = "draw"
          /\ monitor_lock' = "none"
          /\ poisoned' = poisoned]_vars

\* a failed kill of a process that is in the snapshot
C7_Witness ==
    /\ fg_pc = "draw"
    /\ kill_res \in { "spawn_failure", "exit_failure" }
    /\ \E i \in 1 .. Len(current_procs) : current_procs[i] = current_process

\* C8: when ps exits with a non-success status or prints invalid UTF-8, the
\* snapshot stays as it was and the poller goes on to the sleep of its loop.
C8_FailedListingKeepsSnapshot ==
    [][(poller_pc = "ps" /\ ps_status' \in { "exit_failure", "decode_failure" }) =>
          /\ current_procs' = current_procs
          /\ poller_pc' = "sleep"
          /\ monitor_lock' = "none"
          /\ poisoned' = poisoned]_vars

\* a failed listing behind a non-empty snapshot
C8_Witness ==
    /\ poller_pc = "sleep"
    /\ ps_status \in { "exit_failure", "decode_failure" }
    /\ current_procs # << >>
    /\ monitor_lock = "none"

\* C9: when ps cannot be spawned the poller keeps running and the store stays
\* readable.
C9_SpawnFailureIsAbsorbed ==
    ps_status = "spawn_failure" =>
        /\ poller_pc # "panicked"
        /\ ~ poisoned

\* C10: neither a kill from the foreground thread nor the join of the poller
\* panics.
C10_NoPanicInForeground == fg_pc # "panicked"

\* the thread holds the guard of the snapshot and the guard of the flag
HoldsBothLocks(thread) == monitor_lock = thread /\ die_lock = thread

\* the poller stands in a lock() of a mutex that is held
PollerWaits ==
    \/ poller_pc \in { "interval", "lock" } /\ monitor_lock # "none"
    \/ poller_pc = "check" /\ die_lock # "none"

\* the foreground thread stands in a lock() of a mutex that is held
ForegroundWaits ==
    \/ fg_pc = "kill_lock" /\ monitor_lock # "none"
    \/ fg_pc = "quit_lock" /\ die_lock # "none"

\* C11: no thread holds the guard of the snapshot and the guard of the
\* shutdown flag at the same time, and whenever a thread waits for a lock the
\* thread that holds it can take its next step, which it takes without
\* waiting: no state is a deadlock.
C11_NoDoubleHoldNoDeadlock ==
    /\ ~ HoldsBothLocks("poller")
    /\ ~ HoldsBothLocks("fg")
    /\ PollerWaits => (~ ForegroundWaits /\ ENABLED Foreground)
    /\ ForegroundWaits => (~ PollerWaits /\ ENABLED Poller)

\* the foreground thread waits for the snapshot while the poller refills it
C11_Witness ==
    /\ fg_pc = "kill_lock"
    /\ monitor_lock = "poller"
    /\ poller_pc = "fill"

\* the poller stands at the head of its loop or has left it
AtLoopHead == poller_pc \in { "check", "die", "done" }

\* C12: once the shutdown flag is set, the poller that comes to the head of
\* its loop starts no further refresh (so it starts at most one after the
\* flag was set), it observes the flag and leaves the loop, and the join in
\* main returns.
C12_CooperativeShutdown ==
    /\ [][(should_die /\ AtLoopHead) => AtLoopHead']_vars
    /\ should_die ~> (poller_pc = "done")
    /\ should_die ~> (fg_pc = "joined")

\* the keys get_procs_by_name_fuzzy matches the query against, in the order
\* of the snapshot
Refs ==
    [ i \in 1 .. Len(current_procs) |->
        MatchKey(current_procs[i], is_ascii_digit(Head(search_input))) ]

\* the score of a key under the query
Score(key) == fuzzy_compare(search_input, key)

\* the ranking of the snapshot under the query at a threshold
Ranking(t) == TakenMatches(Refs, search_input, t, num_matches)

\* a draw has read the snapshot through the ranking
RankingRead == fg_pc = "poll" /\ tick_read = "Ok" /\ search_input # << >>

\* C13: the ranking is in order of non-increasing score, holds only keys
\* whose score reaches the threshold, and has at most num_matches entries;
\* so has the list of records a draw makes of it.
C13_RankingSortedFilteredTruncated ==
    search_input # << >> =>
        LET keys == Ranking(threshold)
            rows == [ i \in 1 .. Len(run_current_procs) |->
                        MatchKey(run_current_procs[i],
                                 is_ascii_digit(Head(search_input))) ]
        IN  /\ \A i \in 1 .. Len(keys) : \A j \in i + 1 .. Len(keys) :
                    ~ ScoreGreater(Score(keys[j]), Score(keys[i]))
            /\ \A i \in 1 .. Len(keys) : ScoreAtLeast(Score(keys[i]), threshold)
            /\ Len(keys) <= num_matches
            /\ \A i \in 1 .. Len(keys) : \E j \in 1 .. Len(Refs) : Refs[j] = keys[i]
            /\ RankingRead => rows = keys

\* a draw has shown a ranking cut down to num_matches: a key below the
\* threshold was left out, and the sort has put a key before one that stands
\* earlier in the snapshot, reaches the threshold and has a smaller score
C13_Witness ==
    /\ RankingRead
    /\ Len(run_current_procs) = num_matches
    /\ Len(fuzzy_search_threshold(search_input, Refs, threshold)) > num_matches
    /\ \E i \in 1 .. Len(Refs) : ~ ScoreAtLeast(Score(Refs[i]), threshold)
    /\ \E i \in 1 .. Len(Refs) : \E j \in i + 1 .. Len(Refs) :
          /\ ScoreAtLeast(Score(Refs[i]), threshold)
          /\ ScoreGreater(Score(Refs[j]), Score(Refs[i]))
          /\ Ranking(threshold)[1] = Refs[j]

\* how often the key stands in the sequence of keys
Occurrences(keys, key) == Cardinality({ i \in 1 .. Len(keys) : keys[i] = key })

\* C14: with the same query, snapshot and num_matches, every key the ranking
\* returns at the threshold is returned, as often, at every lower threshold.
C14_ThresholdMonotonicity ==
    search_input # << >> =>
        \A t1 \in 0 .. threshold - 1 :
            LET low == Ranking(t1)
                high == Ranking(threshold)
            IN  \A i \in 1 .. Len(high) :
                    Occurrences(high, high[i]) <= Occurrences(low, high[i])

\* a draw has shown a ranking that a lower threshold makes longer, up to
\* num_matches, and would make longer still
C14_Witness ==
    /\ RankingRead
    /\ run_current_procs # << >>
    /\ \E t1 \in 0 .. threshold - 1 :
          /\ Len(Ranking(t1)) > Len(Ranking(threshold))
          /\ Len(Ranking(t1)) = num_matches
          /\ Len(fuzzy_search_threshold(search_input, Refs, t1)) > num_matches

\* a is the beginning of b
PrefixOf(a, b) == Len(a) <= Len(b) /\ a = SubSeq(b, 1, Len(a))

\* the keys of the sequence whose score equals that of the key
SameScore(keys, key) ==
    SelectSeq(keys, LAMBDA k : /\ ~ ScoreGreater(Score(k), Score(key))
                               /\ ~ ScoreGreater(Score(key), Score(k)))

\* C15: the keys of one score stand in the ranking in the order in which
\* their records stand in the snapshot (the ranking holds the first of them).
C15_TiesKeepSnapshotOrder ==
    search_input # << >> =>
        LET keys == Ranking(threshold)
        IN  \A i \in 1 .. Len(keys) :
                PrefixOf(SameScore(keys, keys[i]), SameScore(Refs, keys[i]))

\* a draw has shown two different keys of one score, in the order of the
\* snapshot, before a key of a smaller score that stands first in the snapshot
C15_Witness ==
    /\ RankingRead
    /\ Len(run_current_procs) = 3
    /\ LET keys == Ranking(threshold)
       IN  /\ keys[1] # keys[2]
           /\ SameScore(keys, keys[1]) = << keys[1], keys[2] >>
           /\ Refs = << keys[3], keys[1], keys[2] >>

\* kill_proc, called again for the process right after a call has returned,
\* leaves the snapshot as it is however `kill -9 pid` ends
SecondKillChangesNothing(procs, proc) ==
    \A res \in KillResults : kill_proc(procs, proc, res) = procs

\* C16 as stated: when kill_proc is called twice in immediate succession for
\* one pid and the first call removed a record, the second call changes
\* nothing in the snapshot and does not panic.
C16_SecondKillIsNoOp ==
    [][(fg_pc = "kill_cmd" /\ kill_res' = "success"
            /\ current_procs' # current_procs) =>
          /\ fg_pc' # "panicked"
          /\ SecondKillChangesNothing(current_procs', current_process)]_vars

\* C16 amended: when kill_proc is called twice in immediate succession for
\* one pid and the first call removed the only record with that pid (the pid
\* is no longer in the snapshot), the second call changes nothing in the
\* snapshot and does not panic.
C16_SecondKillOfAbsentPidIsNoOp ==
    [][(fg_pc = "kill_cmd" /\ kill_res' = "success"
            /\ current_procs' # current_procs
            /\ \A i \in 1 .. Len(current_procs') :
                   current_procs'[i].pid # current_process.pid) =>
          /\ fg_pc' # "panicked"
          /\ SecondKillChangesNothing(current_procs', current_process)]_vars

\* a successful kill has removed the only record with the pid and has left
\* other records behind
C16_Witness ==
    /\ fg_pc = "draw"
    /\ kill_res = "success"
    /\ current_procs # << >>
    /\ Len(run_current_procs) = Len(current_procs) + 1
    /\ \A i \in 1 .. Len(current_procs) : current_procs[i].pid # current_process.pid

\* the selections after 0, 1, ... n presses of Down from (0, 0), over the
\* list and the pane of the state
RECURSIVE MoveDowns(_)
MoveDowns(n) ==
    IF n = 0 THEN << [ current_line |-> 0, pointer |-> 0 ] >>
    ELSE LET before == MoveDowns(n - 1)
             from == before[n]
         IN  Append(before, MoveDown(from.current_line, from.pointer,
                                     Len(run_current_procs), num_lines))

\* (current_line, pointer) after n presses of Down from (0, 0)
AfterMoveDowns(n) == MoveDowns(n)[n + 1]

\* the selection of the state
Selection == [ current_line |-> current_line, pointer |-> pointer ]

\* a press of Down takes the selection after n presses to the one after n + 1
DownsAreCounted ==
    [][KeyDown => \A n \in 0 .. 31 :
                    Selection = AfterMoveDowns(n)
                        => Selection' = AfterMoveDowns(n + 1)]_vars

\* C17 as stated: over 30 records and 10 visible rows, from (0, 0), nine
\* presses of Down give (current_line, pointer) = (0, 9), a tenth gives
\* (1, 9), twenty more give (20, 9) and one more leaves (20, 9).
C17_ScenarioPointerFirst ==
    /\ DownsAreCounted
    /\ [](/\ AfterMoveDowns(9) = [ current_line |-> 0, pointer |-> 9 ]
          /\ AfterMoveDowns(10) = [ current_line |-> 1, pointer |-> 9 ]
          /\ AfterMoveDowns(30) = [ current_line |-> 20, pointer |-> 9 ]
          /\ AfterMoveDowns(31) = [ current_line |-> 20, pointer |-> 9 ])

\* C17 amended: over 30 records and 10 visible rows, from (0, 0), nine
\* presses of Down give (current_line, pointer) = (9, 0), a tenth gives
\* (10, 0), twenty more give (20, 9) and one more leaves (20, 9): the list
\* scrolls first, the pointer moves once the list cannot scroll further.
C17_ScenarioScrollFirst ==
    /\ DownsAreCounted
    /\ [](/\ AfterMoveDowns(9) = [ current_line |-> 9, pointer |-> 0 ]
          /\ AfterMoveDowns(10) = [ current_line |-> 10, pointer |-> 0 ]
          /\ AfterMoveDowns(30) = [ current_line |-> 20, pointer |-> 9 ]
          /\ AfterMoveDowns(31) = [ current_line |-> 20, pointer |-> 9 ])

\* the selection stands on the last record, where thirty presses take it,
\* and has been drawn
C17_Witness ==
    /\ fg_pc = "poll"
    /\ Len(run_current_procs) = 30
    /\ ViewportCapacity = 10
    /\ Selection = AfterMoveDowns(30)
    /\ Selection = [ current_line |-> 20, pointer |-> 9 ]
    /\ current_process = run_current_procs[30]

\* how often the record stands in the snapshot
Copies(procs, proc) == Cardinality({ i \in 1 .. Len(procs) : procs[i] = proc })

\* the pids `kill -9` is run for by kill_proc_list, one run after the other,
\* whatever the runs before answered: the records still to go from the i-th
RECURSIVE KillRuns(_, _, _, _)
KillRuns(procs, proc_list, results, i) ==
    IF i > Len(proc_list) THEN << >>
    ELSE << proc_list[i].pid >>
         \o KillRuns(kill_proc(procs, proc_list[i], results[i]),
                     proc_list, results, i + 1)

\* C18: kill_proc_list(name) runs `kill -9` once for every record whose
\* command is name when it is called, however the earlier runs ended, and
\* takes no record out of the snapshot whose command is not name.
C18_KillListTouchesOnlyTheName ==
    [][fg_pc = "kill_list" =>
          LET name == current_process.command
              named == SelectSeq(current_procs, LAMBDA proc : proc.command = name)
          IN  /\ \A results \in KillResultSeqs(Len(named)) :
                    KillRuns(current_procs, ProcList(current_procs, name), results, 1)
                        = [ i \in 1 .. Len(named) |-> named[i].pid ]
              /\ \A i \in 1 .. Len(current_procs) :
                    current_procs[i].command # name =>
                        Copies(current_procs', current_procs[i])
                            = Copies(current_procs, current_procs[i])]_vars

\* the three values of the configuration
Config == << interval, threshold, num_matches >>

C20_IntervalMinimumThreeQuarters ==
    [][fg_pc = "new" =>
          interval' = (IF interval >= 75 THEN interval ELSE 75)]_vars


\* C21: while the external listing `ps` runs, the poller does not hold the
\* mutex of the monitor: it takes it only to write the new snapshot.
C21_ListingOutsideLock ==
    poller_pc = "ps" => monitor_lock # "poller"

\* C22: while the external `kill -9` runs, the foreground thread does not hold
\* the mutex of the monitor: it takes it only afterwards, to remove the record.
C22_KillCommandOutsideLock ==
    fg_pc = "kill_cmd" => monitor_lock # "fg"

\* C28: a kill (the command and the removal) and a refresh (the listing and
\* the write of its records) never run at the same time, so no listing taken
\* before a kill is written after it.
C28_KillAndRefreshNeverInterleave ==
    ~ (fg_pc = "kill_cmd" /\ poller_pc \in { "ps", "fill" })

\* a kill has removed the selected record while the poller stood waiting for
\* the mutex with its listing still to be taken
C28_Witness ==
    /\ kill_res = "success"
    /\ fg_pc = "draw"
    /\ monitor_lock = "none"
    /\ poller_pc = "lock"
    /\ \A i \in 1 .. Len(current_procs) : current_procs[i] # current_process
    /\ \E i \in 1 .. Len(run_current_procs) :
          run_current_procs[i] = current_process


\* the rows of the list on screen, and whether the pointer can go no lower
VisibleCount == Min(ViewportCapacity, saturating_sub(Len(run_current_procs), current_line))

OnLastVisibleRow == pointer + 1 >= VisibleCount

\* C23: a move down (Down key or wheel) scrolls by one and keeps the pointer
\* when scroll_offset + capacity < total_count; otherwise it keeps the scroll
\* offset and moves the pointer down by one, unless the pointer is on the last
\* visible row, and then nothing changes.
C23_MoveDownRule ==
    [][(KeyDown \/ ScrollDown) =>
          IF current_line + ViewportCapacity < Len(run_current_procs)
          THEN /\ current_line' = current_line + 1
               /\ pointer' = pointer
          ELSE /\ current_line' = current_line
               /\ pointer' = (IF OnLastVisibleRow THEN pointer ELSE pointer + 1)]_vars

\* C29: with the list and the terminal fixed (at least one row shown), moves
\* and resets from (0, 0) keep scroll_offset <= max(0, total_count - capacity)
\* and pointer <= max(0, min(total_count, capacity) - 1), hence
\* scroll_offset + pointer <= total_count - 1 for a list that is not empty.
C29_ScrollBounds ==
    LET total_count == Len(run_current_procs)
        capacity == ViewportCapacity
    IN  /\ capacity >= 1
        /\ current_line <= Max(0, total_count - capacity)
        /\ pointer <= Max(0, Min(total_count, capacity) - 1)
        /\ total_count > 0 => current_line + pointer <= total_count - 1

\* a list longer than the terminal shows, scrolled to its end with the pointer
\* on the last row
C29_Witness ==
    /\ Len(run_current_procs) > ViewportCapacity
    /\ ViewportCapacity >= 2
    /\ current_line = Len(run_current_procs) - ViewportCapacity
    /\ current_line >= 2
    /\ pointer = ViewportCapacity - 1
    /\ fg_pc = "poll"
    /\ current_process = run_current_procs[Len(run_current_procs)]


\* C24: every step of the foreground thread that changes the text of the
\* query (a typed character, a backspace, ctrl+b on a query that is not empty)
\* and every ctrl+r sets scroll_offset and pointer to 0 and changes neither
\* the snapshot nor the shutdown flag.
C24_QueryChangeResetsSelection ==
    [][(search_input' # search_input \/ Backspace \/ ResetScroll) =>
          /\ current_line' = 0
          /\ pointer' = 0
          /\ current_procs' = current_procs
          /\ should_die' = should_die]_vars

\* the event has just emptied the query: the list on screen is still the
\* ranked one, its second row was the selected one, and the selection is
\* back at (0, 0)
C24_Witness ==
    /\ fg_pc = "draw"
    /\ tick_read = "none"
    /\ search_input = << >>
    /\ Len(run_current_procs) >= 2
    /\ ~ InCommandOrder(run_current_procs)
    /\ current_process = run_current_procs[2]
    /\ current_line = 0
    /\ pointer = 0


\* the record the claim asks for a line of at least four fields
IsRecordOf(proc, line) ==
    Len(line) >= 4 =>
        /\ proc.command = line[1]
        /\ proc.pid = (IF \A i \in 1 .. Len(line[2]) : is_ascii_digit(line[2][i])
                       THEN DigitsValue(line[2], 0)
                       ELSE IF parse_pid(line[2]) = U64_MAX THEN U64_MAX
                       ELSE proc.pid)
        /\ proc.mem = line[3]
        /\ proc.cpu = line[4]

\* C25: a successful refresh empties the snapshot, so that no record of the
\* previous one stays, and then appends exactly one record per line after the
\* header, in the order of the output: command, pid, memory and cpu are the
\* first four fields, the pid is the sentinel when its field does not parse;
\* the refresh ends when every line has given its record.
C25_RefreshWritesTheListing ==
    [][/\ (poller_pc = "ps" /\ ps_status' = "success") =>
            /\ current_procs' = << >>
            /\ pending' \in { skip1(out) : out \in RefreshOutputs }
            /\ poller_pc' = "fill"
       /\ (poller_pc = "fill" /\ pending # << >>) =>
            /\ Len(current_procs') = Len(current_procs) + 1
            /\ SubSeq(current_procs', 1, Len(current_procs)) = current_procs
            /\ IsRecordOf(current_procs'[Len(current_procs')], Head(pending))
            /\ Len(Head(pending)) < 2 =>
                    current_procs'[Len(current_procs')].pid = U64_MAX
            /\ pending' = Tail(pending)
            /\ poller_pc' = "fill"
       /\ (poller_pc = "fill" /\ pending = << >>) =>
            /\ current_procs' = current_procs
            /\ poller_pc' = "sleep"]_vars

\* a refresh has ended: the snapshot holds the record of a line of five
\* fields whose pid field did not parse, carrying the sentinel, and after it
\* the record of a full line
C25_Witness ==
    /\ poller_pc = "sleep"
    /\ ps_status = "success"
    /\ monitor_lock = "none"
    /\ Len(current_procs) = 2
    /\ current_procs[1].command = << "b", "a" >>
    /\ current_procs[1].pid = U64_MAX
    /\ current_procs[1].mem = << "2" >>
    /\ current_procs[2].command = << "b", "b" >>
    /\ current_procs[2].pid = 1


\* no two records of the snapshot carry the same pid
PidsPairwiseDistinct ==
    \A i \in 1 .. Len(current_procs) : \A j \in i + 1 .. Len(current_procs) :
        current_procs[i].pid # current_procs[j].pid

\* C26: when the pids of the snapshot are pairwise distinct, the list a draw
\* gets from the ranking holds no record twice: processes that share a command
\* name come each as its own record with its own pid.
C26_RankedListHasNoRecordTwice ==
    (RankingRead /\ PidsPairwiseDistinct) =>
        \A i \in 1 .. Len(run_current_procs) :
            \A j \in i + 1 .. Len(run_current_procs) :
                run_current_procs[i] # run_current_procs[j]


\* C27: whenever run has returned (ctrl+q, ctrl+c, or an error of
\* terminal.draw), the shutdown flag is set, and from there join_threads
\* eventually returns.
C27_LoopEndSetsFlagAndJoins ==
    /\ [](fg_pc = "returned" => should_die)
    /\ (fg_pc = "returned") ~> (fg_pc = "joined")

====
